---- MODULE Spec2Model ----
(***************************************************************************)
(* A model of the kvg package (KanjiVG/kvg): the SVG document tree, the    *)
(* renumbering engine (SetBase, RenumberXML, RenumberLabels, SetStyle),    *)
(* and the codec (MakeXML / ParseKanji).                                   *)
(*                                                                         *)
(* Go slices are indexed from 0 and TLA+ sequences from 1: the Go          *)
(* expression kvg.Groups[0] is doc.Groups[1] here, kvg.Groups[1] is        *)
(* doc.Groups[2].                                                          *)
(*                                                                         *)
(* Strings are TLA+ strings; Len, \o and SubSeq act on them as on          *)
(* sequences of characters.                                                *)
(***************************************************************************)
EXTENDS Integers, Sequences, FiniteSets, TLC

VARIABLES
    doc,    \* the SVG value the caller holds (type SVG)
    proc,   \* the calling process: "running", "exited" (log.Fatalf), "panicked"
    ret     \* the last call made on doc, with its arguments and results
            \* (for RenumberXML also "again": the call before it was RenumberXML too)

vars == <<doc, proc, ret>>

---------------------------------------------------------------------------
(* Bounds of the model.                                                    *)

\* Most nodes (Group, Path, Text children) below the base group.
MaxNodes == 3

\* Most children of the second top-level group (the stroke numbers).
MaxLabels == 2

---------------------------------------------------------------------------
(* The document model: type Path, Text, Child, Group, SVG.                 *)

\* A pointer (the Parent fields) is the place it points to: the array that
\* holds the place, and where in the document the place is, as the indexes
\* from the top.  "Groups" is a backing array of SVG.Groups, told from the
\* others the slice has had by its capacity; "Children" is the backing
\* array of the Children of a Group of the document; "local" is the
\* variable c of Group.UnmarshalXML from which the Child at that place was
\* copied.  A *Group pointer at a Child's place points to its Group field.
Nil == [mem |-> "nil", cap |-> 0, at |-> <<>>]

ZeroPath == [ID |-> "", Type |-> "", D |-> "", Parent |-> Nil]

ZeroText == [Content |-> "", Parent |-> Nil]

ZeroGroup == [ID |-> "", Element |-> "", Radical |-> "", Style |-> "",
              Children |-> <<>>, Parent |-> Nil]

\* A Child holds all three variants side by side; IsGroup and IsText say
\* which one is meant (neither: a Path).
PathChild(p) == [IsGroup |-> FALSE, IsText |-> FALSE,
                 Path |-> p, Group |-> ZeroGroup, Text |-> ZeroText,
                 Parent |-> Nil]

TextChild(t) == [IsGroup |-> FALSE, IsText |-> TRUE,
                 Path |-> ZeroPath, Group |-> ZeroGroup, Text |-> t,
                 Parent |-> Nil]

GroupChild(g) == [IsGroup |-> TRUE, IsText |-> FALSE,
                  Path |-> ZeroPath, Group |-> g, Text |-> ZeroText,
                 Parent |-> Nil]

IsPath(c) == ~c.IsGroup /\ ~c.IsText

\* The literals of the source.
KvgPrefix == "kvg:"

StrokePathsPrefix == "kvg:StrokePaths_"

StrokeNumbersPrefix == "kvg:StrokeNumbers_"

StrokeStyle == "fill:none;stroke:#000000;stroke-width:3;stroke-linecap:round;stroke-linejoin:round;"

LabelStyle == "font-size:8;fill:#808080"

SvgNS == "http://www.w3.org/2000/svg"

---------------------------------------------------------------------------
(* Formatting and string helpers.                                          *)

Digits == "0123456789"

\* fmt.Sprintf("%d", n) for n >= 0: the decimal digits, most significant
\* first, no leading zeros.
RECURSIVE Itoa(_)
Itoa(n) ==
    IF n < 10 THEN SubSeq(Digits, n + 1, n + 1)
    ELSE Itoa(n \div 10) \o SubSeq(Digits, (n % 10) + 1, (n % 10) + 1)

HasPrefix(s, p) == Len(s) >= Len(p) /\ SubSeq(s, 1, Len(p)) = p

\* strings.Index(s, sub) as a 1-based position, 0 when sub does not occur.
RECURSIVE IndexFrom(_, _, _)
IndexFrom(s, sub, i) ==
    IF i + Len(sub) - 1 > Len(s) THEN 0
    ELSE IF SubSeq(s, i, i + Len(sub) - 1) = sub THEN i
    ELSE IndexFrom(s, sub, i + 1)

\* strings.Replace(s, old, new, 1): the first occurrence only.
Replace1(s, old, new) ==
    LET i == IndexFrom(s, old, 1)
    IN  IF i = 0 THEN s
        ELSE SubSeq(s, 1, i - 1) \o new \o SubSeq(s, i + Len(old), Len(s))

---------------------------------------------------------------------------
(* The renumbering engine.                                                 *)

\* func (kvg *SVG) BaseGroup(): &kvg.Groups[0].Children[0].Group
BaseGroup(svg) == svg.Groups[1].Children[1].Group

WithBaseGroup(svg, g) == [svg EXCEPT !.Groups[1].Children[1].Group = g]

\* func renumber(child, base, nPathPtr, nGroupPtr). The two counters are
\* passed by pointer in the source; here they go in and come out.  A Child
\* that is not a Group takes the Path branch, whatever IsText says.
RECURSIVE renumber(_, _, _, _), renumberRange(_, _, _, _, _)

\* renumber with counters of its own for the children of each Group.
renumber_PerLevel(child, base, nPath, nGroup) ==
    IF child.IsGroup
    THEN LET n == nGroup + 1
             r == renumberRange(child.Group.Children, 1, base, 0, 0)
         IN  [child  |-> [child EXCEPT !.Group.ID = base \o "-g" \o Itoa(n),
                                       !.Group.Children = r.children],
              nPath  |-> nPath,
              nGroup |-> n]
    ELSE [child  |-> [child EXCEPT !.Path.ID = base \o "-s" \o Itoa(nPath + 1)],
          nPath  |-> nPath + 1,
          nGroup |-> nGroup]

renumber(child, base, nPath, nGroup) ==
    IF child.IsGroup
    THEN LET n == nGroup + 1
             r == renumberRange(child.Group.Children, 1, base, nPath, n)
         IN  [child  |-> [child EXCEPT !.Group.ID = base \o "-g" \o Itoa(n),
                                       !.Group.Children = r.children],
              nPath  |-> r.nPath,
              nGroup |-> r.nGroup]
    ELSE [child  |-> [child EXCEPT !.Path.ID = base \o "-s" \o Itoa(nPath + 1)],
          nPath  |-> nPath + 1,
          nGroup |-> nGroup]

\* for i := range children { renumber(&children[i], base, &nPath, &nGroup) }
renumberRange(children, i, base, nPath, nGroup) ==
    IF i > Len(children)
    THEN [children |-> children, nPath |-> nPath, nGroup |-> nGroup]
    ELSE LET r == renumber(children[i], base, nPath, nGroup)
         IN  renumberRange([children EXCEPT ![i] = r.child], i + 1, base,
                           r.nPath, r.nGroup)

\* The walk both SetBase and RenumberXML make over the base group's
\* children, counters starting at 0.
Walk(svg, base) ==
    LET g == BaseGroup(svg)
        r == renumberRange(g.Children, 1, base, 0, 0)
    IN  WithBaseGroup(svg, [g EXCEPT !.Children = r.children])

\* func (kvg *SVG) Base() (base, baseNoKVG string)
Base(svg) ==
    LET base == BaseGroup(svg).ID
    IN  <<base, Replace1(base, KvgPrefix, "")>>

\* SetBase walking with the identifier the base group had before the call.
SetBase_OldBaseWalk(svg, base) ==
    IF Len(base) < 4 THEN [svg |-> svg, end |-> "panic"]
    ELSE IF SubSeq(base, 1, 4) # KvgPrefix THEN [svg |-> svg, end |-> "fatal"]
    ELSE
      LET tail == SubSeq(base, 5, Len(base))
          s1 == WithBaseGroup(svg, [BaseGroup(svg) EXCEPT !.ID = base])
          s2 == [s1 EXCEPT !.Groups[1].ID = StrokePathsPrefix \o tail]
          s3 == IF Len(s2.Groups) > 1
                THEN [s2 EXCEPT !.Groups[2].ID = StrokeNumbersPrefix \o tail]
                ELSE s2
      IN  [svg |-> Walk(s3, BaseGroup(svg).ID), end |-> "ok"]

\* func (kvg *SVG) SetBase(base string). The result says how the call
\* ended: "ok"; "panic" (base[0:4] on a string shorter than 4: slice bounds
\* out of range); "fatal" (log.Fatalf: the process exits with status 1).
SetBase(svg, base) ==
    IF Len(base) < 4 THEN [svg |-> svg, end |-> "panic"]
    ELSE IF SubSeq(base, 1, 4) # KvgPrefix THEN [svg |-> svg, end |-> "fatal"]
    ELSE
      LET tail == SubSeq(base, 5, Len(base))
          s1 == WithBaseGroup(svg, [BaseGroup(svg) EXCEPT !.ID = base])
          s2 == [s1 EXCEPT !.Groups[1].ID = StrokePathsPrefix \o tail]
          s3 == IF Len(s2.Groups) > 1
                THEN [s2 EXCEPT !.Groups[2].ID = StrokeNumbersPrefix \o tail]
                ELSE s2
      IN  [svg |-> Walk(s3, base), end |-> "ok"]

\* RelabelChild appending the number to the content instead of replacing it.
RelabelChild_Append(c, i) ==
    IF ~c.IsText THEN c
    ELSE [c EXCEPT !.Text.Content = @ \o Itoa(i)]

\* The loop body of RenumberLabels for one child of the label group.
RelabelChild(c, i) ==
    IF ~c.IsText THEN c    \* log.Printf(...); continue
    ELSE [c EXCEPT !.Text.Content = Itoa(i)]

\* RenumberLabels leaving the loop at the first child that is not a Text
\* (break for continue).
RenumberLabels_Break(svg) ==
    IF Len(svg.Groups) < 2 THEN [svg |-> svg, end |-> "panic"]
    ELSE
      LET labels == svg.Groups[2]
          relabelled == [i \in 1..Len(labels.Children) |->
                            IF \E j \in 1..i : ~labels.Children[j].IsText
                            THEN labels.Children[i]
                            ELSE RelabelChild(labels.Children[i], i)]
      IN  [svg |-> [svg EXCEPT !.Groups[2].Children = relabelled],
           end |-> "ok"]

\* func (kvg *SVG) RenumberLabels(). labels := kvg.Groups[1] copies the
\* Group value, but its Children slice shares the document's backing array,
\* and c := &labels.Children[i] points into it: the writes land in the
\* document.  Indexing Groups[1] of a one-group document panics.
RenumberLabels(svg) ==
    IF Len(svg.Groups) < 2 THEN [svg |-> svg, end |-> "panic"]
    ELSE
      LET labels == svg.Groups[2]
          relabelled == [i \in 1..Len(labels.Children) |->
                            RelabelChild(labels.Children[i], i)]
      IN  [svg |-> [svg EXCEPT !.Groups[2].Children = relabelled],
           end |-> "ok"]

\* func removeChildStyles(g *Group). "for _, child := range c" copies each
\* Child: child.Group.Style = "" is written to the copy, and the recursion
\* is given the address of the copy's Group, where it again writes to copies
\* only.  Nothing reachable from g is written.
removeChildStyles(g) == g

\* func (svg *SVG) SetStyle()
SetStyle(svg) ==
    IF Len(svg.Groups) < 2
    THEN [svg |-> [svg EXCEPT !.Groups[1].Style = StrokeStyle], end |-> "panic"]
    ELSE
      LET s1 == [svg EXCEPT !.Groups[1].Style = StrokeStyle,
                            !.Groups[2].Style = LabelStyle]
      IN  [svg |-> [s1 EXCEPT !.Groups[1] = removeChildStyles(s1.Groups[1])],
           end |-> "ok"]

\* func (svg *SVG) RenumberXML(): the walk with the current base, then the
\* labels, then the styles; a panic ends the call where it happens.
RenumberXML(svg) ==
    LET walked == Walk(svg, BaseGroup(svg).ID)
        lab    == RenumberLabels(walked)
    IN  IF lab.end # "ok" THEN lab ELSE SetStyle(lab.svg)

---------------------------------------------------------------------------
(* The codec: MakeXML (xml.MarshalIndent of the struct tags, then fixXML)  *)
(* and ParseKanji (xml.Unmarshal with the UnmarshalXML methods).           *)
(*                                                                         *)
(* The bytes are modelled as the sequence of XML tokens they hold.  A      *)
(* token is a start tag, an end tag, an empty-element tag or character     *)
(* data; "indent" is the number of tabs written before a tag that starts   *)
(* a line, -1 for a tag written right after the previous token.  The       *)
(* escaping of attribute values and text is not modelled.                  *)

Inline == 0 - 1

StartTok(name, attrs, indent) ==
    [kind |-> "start", name |-> name, attrs |-> attrs, text |-> "",
     indent |-> indent]

EndTok(name, indent) ==
    [kind |-> "end", name |-> name, attrs |-> <<>>, text |-> "",
     indent |-> indent]

CharTok(text) ==
    [kind |-> "chardata", name |-> "", attrs |-> <<>>, text |-> text,
     indent |-> Inline]

\* Attr leaving out every empty value, whatever the struct tag says.
Attr_OmitAllEmpty(name, value, omitempty) ==
    IF value = "" THEN <<>> ELSE << <<name, value>> >>

\* One attribute as the struct tag asks: with omitempty an empty value
\* writes nothing, without it the attribute is always written.
Attr(name, value, omitempty) ==
    IF omitempty /\ value = "" THEN <<>> ELSE << <<name, value>> >>

\* Path: ID `xml:"id,attr"`, Type `xml:"kvg:type,attr,omitempty"`,
\* D `xml:"d,attr"`
PathAttrs(p) ==
    Attr("id", p.ID, FALSE) \o Attr("kvg:type", p.Type, TRUE)
        \o Attr("d", p.D, FALSE)

\* Group: the attr fields, all omitempty, in field order.
GroupAttrs(g) ==
    Attr("id", g.ID, TRUE) \o Attr("kvg:element", g.Element, TRUE)
        \o Attr("kvg:radical", g.Radical, TRUE) \o Attr("style", g.Style, TRUE)

\* SVG: xmlns, width, height always, viewBox omitempty.
SVGAttrs(svg) ==
    Attr("xmlns", svg.XMLNS, FALSE) \o Attr("width", svg.Width, FALSE)
        \o Attr("height", svg.Height, FALSE)
        \o Attr("viewBox", svg.ViewBox, TRUE)

\* The end tag of an element goes on a line of its own when the element
\* held child elements, and right after the previous token otherwise.
EndIndent(children, depth) == IF children = <<>> THEN Inline ELSE depth

MarshalPath(p, depth) ==
    <<StartTok("path", PathAttrs(p), depth), EndTok("path", Inline)>>

MarshalText(t, depth) ==
    <<StartTok("text", <<>>, depth)>>
        \o (IF t.Content = "" THEN <<>> ELSE <<CharTok(t.Content)>>)
        \o <<EndTok("text", Inline)>>

\* func (c Child) MarshalXML: a Group, else a Text, else a Path.
RECURSIVE MarshalChild(_, _), MarshalGroup(_, _), MarshalChildren(_, _)

\* MarshalXML without the IsText case: a Text is written as a path.
MarshalChild_NoText(c, depth) ==
    IF c.IsGroup THEN MarshalGroup(c.Group, depth)
    ELSE MarshalPath(c.Path, depth)

MarshalChild(c, depth) ==
    IF c.IsGroup THEN MarshalGroup(c.Group, depth)
    ELSE IF c.IsText THEN MarshalText(c.Text, depth)
    ELSE MarshalPath(c.Path, depth)

MarshalGroup(g, depth) ==
    <<StartTok("g", GroupAttrs(g), depth)>>
        \o MarshalChildren(g.Children, depth + 1)
        \o <<EndTok("g", EndIndent(g.Children, depth))>>

MarshalChildren(children, depth) ==
    IF children = <<>> THEN <<>>
    ELSE MarshalChild(Head(children), depth)
             \o MarshalChildren(Tail(children), depth)

RECURSIVE MarshalGroups(_, _)
MarshalGroups(groups, depth) ==
    IF groups = <<>> THEN <<>>
    ELSE MarshalGroup(Head(groups), depth) \o MarshalGroups(Tail(groups), depth)

\* xml.MarshalIndent(*kanjivg, "", "\t")
MarshalIndent(svg) ==
    <<StartTok("svg", SVGAttrs(svg), 0)>>
        \o MarshalGroups(svg.Groups, 1)
        \o <<EndTok("svg", EndIndent(svg.Groups, 0))>>

\* strings.Replace(s, "\t<tag", "<tag", -1) on one tag: n tabs go when at
\* least n tabs stand before the tag.
LessTabs(indent, n) == IF indent >= n THEN indent - n ELSE indent

\* The replacements of fixXML on the tabs before one tag: "\t<g" twice,
\* "\t\t<path" once, "\t<text" once, "\t</g>" twice.
FixIndent(t) ==
    IF t.name = "g" THEN [t EXCEPT !.indent = LessTabs(LessTabs(t.indent, 1), 1)]
    ELSE IF t.name = "path" /\ t.kind # "end"
         THEN [t EXCEPT !.indent = LessTabs(t.indent, 2)]
    ELSE IF t.name = "text" /\ t.kind = "start"
         THEN [t EXCEPT !.indent = LessTabs(t.indent, 1)]
    ELSE t

\* strings.Replace(s, "></path>", "/>", -1): a path start tag directly
\* followed by its end tag becomes an empty-element tag.
RECURSIVE CollapsePaths(_)
CollapsePaths(toks) ==
    IF Len(toks) < 2 THEN toks
    ELSE IF /\ toks[1].kind = "start"
            /\ toks[2].kind = "end" /\ toks[2].name = "path"
            /\ toks[2].indent = Inline
         THEN <<[toks[1] EXCEPT !.kind = "empty"]>>
                  \o CollapsePaths(SubSeq(toks, 3, Len(toks)))
         ELSE <<toks[1]>> \o CollapsePaths(Tail(toks))

\* func fixXML(xmlout []byte) []byte: Heading + the fixed output + "\n".
fixXML(toks) ==
    LET collapsed == CollapsePaths(toks)
    IN  [heading |-> TRUE,
         body    |-> [i \in 1..Len(collapsed) |-> FixIndent(collapsed[i])],
         newline |-> TRUE]

\* func MakeXML(kanjivg *SVG) (output []byte): RenumberXML first, which may
\* panic; the marshalling of these struct types does not fail.
MakeXML(svg) ==
    LET r == RenumberXML(svg)
    IN  IF r.end # "ok" THEN [svg |-> r.svg, end |-> r.end, out |-> <<>>]
        ELSE [svg |-> r.svg, end |-> "ok", out |-> fixXML(MarshalIndent(r.svg))]

\* The tokens d.Token() gives for the bytes: the heading (declaration,
\* comment, doctype) holds no element, an empty-element tag gives a start
\* and an end token.
RECURSIVE ExpandEmpty(_)
ExpandEmpty(toks) ==
    IF toks = <<>> THEN <<>>
    ELSE LET t == Head(toks)
         IN  (IF t.kind = "empty"
              THEN <<[t EXCEPT !.kind = "start"], EndTok(t.name, Inline)>>
              ELSE <<t>>) \o ExpandEmpty(Tail(toks))

Tokens(contents) == ExpandEmpty(contents.body)

\* xml.Name.Local of a name as written: what follows the first colon.
Local(name) ==
    LET i == IndexFrom(name, ":", 1)
    IN  IF i = 0 THEN name ELSE SubSeq(name, i + 1, Len(name))

\* for _, attr := range start.Attr { switch attr.Name.Local { ... } } of
\* Path.UnmarshalXML
RECURSIVE PathFromAttrs(_, _)
PathFromAttrs(p, attrs) ==
    IF attrs = <<>> THEN p
    ELSE LET n == Local(Head(attrs)[1])
             v == Head(attrs)[2]
             q == IF n = "d" THEN [p EXCEPT !.D = v]
                  ELSE IF n = "id" THEN [p EXCEPT !.ID = v]
                  ELSE IF n = "type" THEN [p EXCEPT !.Type = v]
                  ELSE p
         IN  PathFromAttrs(q, Tail(attrs))

\* The attribute switch of Group.UnmarshalXML; an attribute it does not
\* name is printed and ignored.
RECURSIVE GroupFromAttrs(_, _)
GroupFromAttrs(g, attrs) ==
    IF attrs = <<>> THEN g
    ELSE LET n == Local(Head(attrs)[1])
             v == Head(attrs)[2]
             h == IF n = "element" THEN [g EXCEPT !.Element = v]
                  ELSE IF n = "id" THEN [g EXCEPT !.ID = v]
                  ELSE IF n = "radical" THEN [g EXCEPT !.Radical = v]
                  ELSE IF n = "style" THEN [g EXCEPT !.Style = v]
                  ELSE g
         IN  GroupFromAttrs(h, Tail(attrs))

\* The attributes the default unmarshaller stores in an SVG value.
RECURSIVE SVGFromAttrs(_, _)
SVGFromAttrs(svg, attrs) ==
    IF attrs = <<>> THEN svg
    ELSE LET n == Local(Head(attrs)[1])
             v == Head(attrs)[2]
             s == IF n = "xmlns" THEN [svg EXCEPT !.XMLNS = v]
                  ELSE IF n = "width" THEN [svg EXCEPT !.Width = v]
                  ELSE IF n = "height" THEN [svg EXCEPT !.Height = v]
                  ELSE IF n = "viewBox" THEN [svg EXCEPT !.ViewBox = v]
                  ELSE svg
         IN  SVGFromAttrs(s, Tail(attrs))

\* The token loop of Path.UnmarshalXML from position pos: every token is
\* read and dropped up to the first end tag named as the start tag.
RECURSIVE PathLoop(_, _, _)
PathLoop(toks, pos, p) ==
    IF pos > Len(toks) THEN [val |-> p, pos |-> pos, err |-> "EOF"]
    ELSE IF toks[pos].kind = "end" /\ toks[pos].name = "path"
         THEN [val |-> p, pos |-> pos + 1, err |-> "nil"]
    ELSE PathLoop(toks, pos + 1, p)

\* func (p *Path) UnmarshalXML(d, start); pos is the token after start.
PathUnmarshalXML(toks, pos, start) ==
    PathLoop(toks, pos, PathFromAttrs(ZeroPath, start.attrs))

\* d.Skip(): to the end tag that closes the element just opened.
RECURSIVE Skip(_, _, _)
Skip(toks, pos, depth) ==
    IF pos > Len(toks) THEN [pos |-> pos, err |-> "EOF"]
    ELSE IF toks[pos].kind = "start" THEN Skip(toks, pos + 1, depth + 1)
    ELSE IF toks[pos].kind = "end"
         THEN IF depth = 0 THEN [pos |-> pos + 1, err |-> "nil"]
              ELSE Skip(toks, pos + 1, depth - 1)
    ELSE Skip(toks, pos + 1, depth)

\* The default unmarshalling of a Text: character data is gathered into
\* Content, a child element is skipped whole.
RECURSIVE TextLoop(_, _, _)
TextLoop(toks, pos, t) ==
    IF pos > Len(toks) THEN [val |-> t, pos |-> pos, err |-> "EOF"]
    ELSE IF toks[pos].kind = "end"
         THEN [val |-> t, pos |-> pos + 1, err |-> "nil"]
    ELSE IF toks[pos].kind = "chardata"
         THEN TextLoop(toks, pos + 1,
                       [t EXCEPT !.Content = @ \o toks[pos].text])
    ELSE LET s == Skip(toks, pos + 1, 0)
         IN  IF s.err # "nil" THEN [val |-> t, pos |-> s.pos, err |-> s.err]
             ELSE TextLoop(toks, s.pos, t)

TextUnmarshal(toks, pos, start) == TextLoop(toks, pos, ZeroText)

\* func (g *Group) UnmarshalXML(d, start): the attributes, then the token
\* loop.  A start tag g, path or text is decoded into a new Child, which is
\* appended; any other start tag is printed and nothing is appended, and
\* the loop goes on with the next token.  The end tag named as the start
\* tag ends the loop.
\* self is the receiver g, the place the Group is decoded into.  The Child
\* is decoded in the variable c, new in every round of the loop: c.Parent
\* is the receiver, the nested Group is decoded into c.Group, and the
\* Parent of the nested Group, Path or Text is &c.  What is appended to
\* g.Children is a copy of c.
RECURSIVE GroupUnmarshalXML(_, _, _, _), GroupLoop(_, _, _, _)
GroupUnmarshalXML(toks, pos, start, self) ==
    GroupLoop(toks, pos, GroupFromAttrs(ZeroGroup, start.attrs), self)

GroupLoop(toks, pos, g, self) ==
    IF pos > Len(toks) THEN [val |-> g, pos |-> pos, err |-> "EOF"]
    ELSE
      LET t == toks[pos]
          c == [mem |-> "local", cap |-> 0,
                at  |-> self.at \o <<Len(g.Children) + 1>>]
      IN  IF t.kind = "start" THEN
            IF t.name = "g" THEN
              LET r == GroupUnmarshalXML(toks, pos + 1, t, c)
              IN  IF r.err # "nil" THEN [val |-> g, pos |-> r.pos, err |-> r.err]
                  ELSE GroupLoop(toks, r.pos,
                         [g EXCEPT !.Children = Append(@,
                            [GroupChild([r.val EXCEPT !.Parent = c])
                                EXCEPT !.Parent = self])],
                         self)
            ELSE IF t.name = "path" THEN
              LET r == PathUnmarshalXML(toks, pos + 1, t)
              IN  IF r.err # "nil" THEN [val |-> g, pos |-> r.pos, err |-> r.err]
                  ELSE GroupLoop(toks, r.pos,
                         [g EXCEPT !.Children = Append(@,
                            [PathChild([r.val EXCEPT !.Parent = c])
                                EXCEPT !.Parent = self])],
                         self)
            ELSE IF t.name = "text" THEN
              LET r == TextUnmarshal(toks, pos + 1, t)
              IN  IF r.err # "nil" THEN [val |-> g, pos |-> r.pos, err |-> r.err]
                  ELSE GroupLoop(toks, r.pos,
                         [g EXCEPT !.Children = Append(@,
                            [TextChild([r.val EXCEPT !.Parent = c])
                                EXCEPT !.Parent = self])],
                         self)
            ELSE GroupLoop(toks, pos + 1, g, self)
          ELSE IF t.kind = "end" /\ t.name = "g"
               THEN [val |-> g, pos |-> pos + 1, err |-> "nil"]
          ELSE GroupLoop(toks, pos + 1, g, self)

\* The capacity of a slice grown by appending one element at a time, when
\* it holds n elements: 1, 2, 4, 4, 8, ...
RECURSIVE CapOf(_)
CapOf(n) == IF n <= 1 THEN n ELSE 2 * CapOf((n + 1) \div 2)

\* The place of the i-th of n top-level Groups: in the backing array the
\* slice has when it holds n Groups.
GroupsSlot(n, i) == [mem |-> "Groups", cap |-> CapOf(n), at |-> <<i>>]

ZeroSVG == [XMLNS |-> "", Width |-> "", Height |-> "", ViewBox |-> "",
            Groups |-> <<>>]

\* The default unmarshalling of the root into an SVG: each child element g
\* is appended to Groups (`xml:"g"`), any other child element is skipped.
\* The slice is grown by one zero Group, in a new backing array when the
\* old one is full, and the element is decoded into the new last place.
RECURSIVE SVGLoop(_, _, _)
SVGLoop(toks, pos, svg) ==
    IF pos > Len(toks) THEN [val |-> svg, pos |-> pos, err |-> "EOF"]
    ELSE
      LET t == toks[pos]
      IN  IF t.kind = "start" THEN
            IF t.name = "g" THEN
              LET n == Len(svg.Groups) + 1
                  r == GroupUnmarshalXML(toks, pos + 1, t, GroupsSlot(n, n))
              IN  IF r.err # "nil" THEN [val |-> svg, pos |-> r.pos, err |-> r.err]
                  ELSE SVGLoop(toks, r.pos,
                         [svg EXCEPT !.Groups = Append(@, r.val)])
            ELSE
              LET s == Skip(toks, pos + 1, 0)
              IN  IF s.err # "nil" THEN [val |-> svg, pos |-> s.pos, err |-> s.err]
                  ELSE SVGLoop(toks, s.pos, svg)
          ELSE IF t.kind = "end"
               THEN [val |-> svg, pos |-> pos + 1, err |-> "nil"]
          ELSE SVGLoop(toks, pos + 1, svg)

\* func ParseKanji(contents []byte) (kanjivg SVG, oerr error)
ParseKanji(contents) ==
    LET toks == Tokens(contents)
    IN  IF toks = <<>> THEN [svg |-> ZeroSVG, err |-> "EOF"]
        ELSE IF toks[1].kind # "start" \/ toks[1].name # "svg"
             THEN [svg |-> ZeroSVG, err |-> "expected element type <svg>"]
        ELSE LET r == SVGLoop(toks, 2, SVGFromAttrs(ZeroSVG, toks[1].attrs))
             IN  [svg |-> r.val, err |-> r.err]

\* The token after the element whose start tag is token k.
AfterElem(toks, k) == Skip(toks, k + 1, 0).pos

\* The start tag of the i-th child element of the element that starts at
\* token k (the encoder writes no character data between elements).
RECURSIVE NthChild(_, _, _)
NthChild(toks, k, i) ==
    IF i = 1 THEN k + 1 ELSE AfterElem(toks, NthChild(toks, k, i - 1))

\* The bytes with the element that starts at token k given another tag
\* name, in its start tag and in its end tag.
WithTagName(toks, k, name) ==
    [j \in DOMAIN toks |->
        IF j = k \/ j = AfterElem(toks, k) - 1
        THEN [toks[j] EXCEPT !.name = name] ELSE toks[j]]

\* Tag names Group.UnmarshalXML has no case for.
UnknownNames == {"rect"}

\* The start tag of the base group in the tokens of a document: after
\* <svg> and the first top-level <g>.
BaseGroupTok == 3

---------------------------------------------------------------------------
(* The documents the model starts from.                                    *)

\* What a document holds before any call: "fresh" is a tree built in memory
\* with nothing filled in, "stale" a file edited by hand (copied strokes
\* keep the identifier, style and label they were copied with).
Prior(p) ==
    IF p = "fresh"
    THEN [pathID |-> "", groupID |-> "", style |-> "", label |-> "",
          top1 |-> "", top2 |-> ""]
    ELSE [pathID |-> "kvg:0-s1", groupID |-> "kvg:0-g1", style |-> "fill:red",
          label |-> "7", top1 |-> "kvg:StrokePaths_0",
          top2 |-> "kvg:StrokeNumbers_0"]

Priors == {"fresh", "stale"}

NewPath(p) == PathChild([ZeroPath EXCEPT !.ID = Prior(p).pathID, !.D = "M1,1"])

NewText(p) == TextChild([ZeroText EXCEPT !.Content = Prior(p).label])

NewGroup(p, children) ==
    GroupChild([ZeroGroup EXCEPT !.ID = Prior(p).groupID,
                                 !.Style = Prior(p).style,
                                 !.Children = children])

\* Trees(p, n): the Child values with exactly n nodes; Forests(p, n): the
\* child sequences with exactly n nodes in all.
RECURSIVE Trees(_, _), Forests(_, _)
Trees(p, n) ==
    IF n = 1 THEN {NewPath(p), NewText(p), NewGroup(p, <<>>)}
    ELSE {NewGroup(p, f) : f \in Forests(p, n - 1)}

Forests(p, n) ==
    IF n = 0 THEN {<<>>}
    ELSE UNION {{<<t>> \o f : t \in Trees(p, k), f \in Forests(p, n - k)} :
                   k \in 1..n}

\* The children of the label group: Text, or a stray Path.
RECURSIVE LabelSeqs(_, _)
LabelSeqs(p, n) ==
    IF n = 0 THEN {<<>>}
    ELSE {<<c>> \o s : c \in {NewText(p), NewPath(p)}, s \in LabelSeqs(p, n - 1)}

InitBase == "kvg:0"

\* A document with the base group present: the first top-level group's
\* first child is a Group.
NewSVG(p, kids, labels, two) ==
    LET base == GroupChild([ZeroGroup EXCEPT !.ID = InitBase,
                                             !.Style = Prior(p).style,
                                             !.Children = kids])
        g1 == [ZeroGroup EXCEPT !.ID = Prior(p).top1,
                                !.Style = Prior(p).style,
                                !.Children = <<base>>]
        g2 == [ZeroGroup EXCEPT !.ID = Prior(p).top2,
                                !.Style = Prior(p).style,
                                !.Children = labels]
    IN  [XMLNS |-> SvgNS, Width |-> "109", Height |-> "109",
         ViewBox |-> "0 0 109 109",
         Groups |-> IF two THEN <<g1, g2>> ELSE <<g1>>]

DocsOf(p) ==
    {NewSVG(p, kids, labels, two) :
        kids \in UNION {Forests(p, n) : n \in 0..MaxNodes},
        labels \in UNION {LabelSeqs(p, n) : n \in 0..MaxLabels},
        two \in BOOLEAN}

\* The arguments SetBase is called with.
NewBases == {"kvg:1-Kaisho", "svg:1", "kvg"}

---------------------------------------------------------------------------
(* The state machine: the calls a collaborator makes on one document.      *)

EndProc(end) == IF end = "ok" THEN "running"
                ELSE IF end = "fatal" THEN "exited" ELSE "panicked"

Init ==
    /\ doc \in UNION {DocsOf(p) : p \in Priors}
    /\ proc = "running"
    /\ ret = [op |-> "new"]

\* kvg.SetBase(base)
DoSetBase ==
    /\ proc = "running"
    /\ \E base \in NewBases :
         LET r == SetBase(doc, base)
         IN  /\ doc' = r.svg
             /\ proc' = EndProc(r.end)
             /\ ret' = [op |-> "SetBase", base |-> base]

\* kvg.RenumberXML()
DoRenumber ==
    /\ proc = "running"
    /\ LET r == RenumberXML(doc)
       IN  /\ doc' = r.svg
           /\ proc' = EndProc(r.end)
           /\ ret' = [op |-> "RenumberXML", again |-> ret.op = "RenumberXML"]

\* kvg.RenumberLabels()
DoRenumberLabels ==
    /\ proc = "running"
    /\ LET r == RenumberLabels(doc)
       IN  /\ doc' = r.svg
           /\ proc' = EndProc(r.end)
           /\ ret' = [op |-> "RenumberLabels"]

\* kvg.SetStyle()
DoSetStyle ==
    /\ proc = "running"
    /\ LET r == SetStyle(doc)
       IN  /\ doc' = r.svg
           /\ proc' = EndProc(r.end)
           /\ ret' = [op |-> "SetStyle"]

\* kvg.Base()
DoBase ==
    /\ proc = "running"
    /\ ret' = [op |-> "Base", base |-> Base(doc)[1], baseNoKVG |-> Base(doc)[2]]
    /\ UNCHANGED <<doc, proc>>

\* kvg.MakeXML()
DoMakeXML ==
    /\ proc = "running"
    /\ LET r == MakeXML(doc)
       IN  /\ doc' = r.svg
           /\ proc' = EndProc(r.end)
           /\ ret' = [op |-> "MakeXML", out |-> r.out]

\* ParseKanji(contents) on the bytes MakeXML has just returned; the result
\* is a document of its own.
DoParseKanji ==
    /\ proc = "running"
    /\ ret.op = "MakeXML"
    /\ LET r == ParseKanji(ret.out)
       IN  ret' = [op |-> "ParseKanji", svg |-> r.svg, err |-> r.err]
    /\ UNCHANGED <<doc, proc>>

\* ParseKanji(contents) on the bytes MakeXML has just returned, in which
\* the i-th child element of the base group has been given a tag name that
\* is not g, path or text.
DoParseUnknown ==
    /\ proc = "running"
    /\ ret.op = "MakeXML"
    /\ \E i \in DOMAIN BaseGroup(doc).Children, name \in UnknownNames :
         LET toks == Tokens(ret.out)
             k    == NthChild(toks, BaseGroupTok, i)
             r    == ParseKanji([heading |-> TRUE,
                                 body    |-> WithTagName(toks, k, name),
                                 newline |-> TRUE])
         IN  ret' = [op |-> "ParseUnknown", at |-> i,
                     svg |-> r.svg, err |-> r.err]
    /\ UNCHANGED <<doc, proc>>

Next ==
    \/ DoSetBase
    \/ DoRenumber
    \/ DoRenumberLabels
    \/ DoSetStyle
    \/ DoBase
    \/ DoMakeXML
    \/ DoParseKanji
    \/ DoParseUnknown

Spec == Init /\ [][Next]_vars

---------------------------------------------------------------------------
(* The structural queries.  A pointer into the document, to a Group, a    *)
(* Child or a Path, is the place it points to, written as the indexes from *)
(* the top: <<1>> is &kvg.Groups[0], <<1, 1>> the base group or the Child  *)
(* that holds it, <<1, 1, 2>> the second Child of the base group, or its   *)
(* Group or Path field, by the type of the pointer.                        *)

\* func getPaths(g *Group) (paths []*Path); q is the place of g.
RECURSIVE getPaths(_, _), getPathsFrom(_, _, _)
getPaths(g, q) == getPathsFrom(g, q, 1)

getPathsFrom(g, q, i) ==
    IF i > Len(g.Children) THEN <<>>
    ELSE LET c == g.Children[i]
         IN  (IF c.IsGroup THEN getPaths(c.Group, q \o <<i>>)
              ELSE << q \o <<i>> >>) \o getPathsFrom(g, q, i + 1)

\* func (g *Group) GetPaths() (paths []*Path)
GetPaths(g, q) == getPaths(g, q)

\* func (base *Group) GetGroups() (groups []*Group)
RECURSIVE GetGroups(_, _), GetGroupsFrom(_, _, _)

\* GetGroups putting a Group before the Groups below it.
GetGroups_BaseFirst(base, q) == <<q>> \o GetGroupsFrom(base, q, 1)

GetGroups(base, q) == GetGroupsFrom(base, q, 1) \o <<q>>

GetGroupsFrom(base, q, i) ==
    IF i > Len(base.Children) THEN <<>>
    ELSE (IF base.Children[i].IsGroup
          THEN GetGroups(base.Children[i].Group, q \o <<i>>)
          ELSE <<>>) \o GetGroupsFrom(base, q, i + 1)

\* func FindElement(gp *Group, funky string) (found bool, loc []*Group)
RECURSIVE FindElement(_, _, _), FindElementFrom(_, _, _, _)

\* FindElement looking below a Group before it looks at the Group.
FindElement_ChildrenFirst(gp, q, funky) ==
    LET r == FindElementFrom(gp, q, funky, 1)
    IN  IF r.found THEN r
        ELSE IF gp.Element = funky THEN [found |-> TRUE, loc |-> <<q>>]
        ELSE r

FindElement(gp, q, funky) ==
    IF gp.Element = funky THEN [found |-> TRUE, loc |-> <<q>>]
    ELSE FindElementFrom(gp, q, funky, 1)

FindElementFrom(gp, q, funky, i) ==
    IF i > Len(gp.Children) THEN [found |-> FALSE, loc |-> <<>>]
    ELSE IF gp.Children[i].IsGroup
         THEN LET r == FindElement(gp.Children[i].Group, q \o <<i>>, funky)
              IN  IF r.found THEN [found |-> TRUE, loc |-> Append(r.loc, q)]
                  ELSE FindElementFrom(gp, q, funky, i + 1)
    ELSE FindElementFrom(gp, q, funky, i + 1)

\* func multiSearch(depth, pos, gp, funky, locs, debug): locs goes in and
\* comes out.  pos is a slice passed by value: what a call appends is not
\* seen by its caller, whose own appends write over it.
RECURSIVE multiSearch(_, _, _, _, _), multiSearchFrom(_, _, _, _, _, _)
multiSearch(pos, gp, q, funky, locs) ==
    multiSearchFrom(Append(pos, q), gp, q, funky, locs, 1)

multiSearchFrom(pos, gp, q, funky, locs, i) ==
    IF i > Len(gp.Children) THEN locs
    ELSE LET g == gp.Children[i]
         IN  IF ~g.IsGroup
             THEN multiSearchFrom(pos, gp, q, funky, locs, i + 1)
             ELSE IF g.Group.Element # funky
             THEN multiSearchFrom(pos, gp, q, funky,
                      multiSearch(pos, g.Group, q \o <<i>>, funky, locs),
                      i + 1)
             ELSE multiSearchFrom(Append(pos, q \o <<i>>), gp, q, funky,
                      Append(locs, Append(pos, q \o <<i>>)), i + 1)

\* func (gp *Group) FindMultiElement(funky string) (locs [][]*Group)
FindMultiElement(gp, q, funky) == multiSearch(<<>>, gp, q, funky, <<>>)

\* func FindType(g *Group, t string) (found bool, loc []*Child)
RECURSIVE FindType(_, _, _), FindTypeFrom(_, _, _, _)

FindType(g, q, t) == FindTypeFrom(g, q, t, 1)

FindTypeFrom(g, q, t, i) ==
    IF i > Len(g.Children) THEN [found |-> FALSE, loc |-> <<>>]
    ELSE LET c == g.Children[i]
         IN  IF c.IsGroup
             THEN LET r == FindType(c.Group, q \o <<i>>, t)
                  IN  IF r.found
                      THEN [found |-> TRUE, loc |-> Append(r.loc, q \o <<i>>)]
                      ELSE FindTypeFrom(g, q, t, i + 1)
             ELSE IF c.Path.Type = t
             THEN [found |-> TRUE, loc |-> << q \o <<i>> >>]
             ELSE FindTypeFrom(g, q, t, i + 1)

\* type Radical struct, with nothing found yet.
ZeroRadical == [General |-> <<>>, Tradit |-> <<>>, Nelson |-> <<>>, JIS |-> <<>>]

\* func (g *Group) SearchRadical(radPtr *Radical): *radPtr goes in and
\* comes out.  The child Groups first, then g; a value that is none of
\* the four is logged.
RECURSIVE SearchRadical(_, _, _), SearchRadicalFrom(_, _, _, _)

\* SearchRadical putting a Group in its bucket before it visits the
\* Groups below it.
SearchRadical_GroupFirst(g, q, rad) ==
    LET r == IF g.Radical = "general" THEN [rad EXCEPT !.General = Append(@, q)]
             ELSE IF g.Radical = "nelson" THEN [rad EXCEPT !.Nelson = Append(@, q)]
             ELSE IF g.Radical = "jis" THEN [rad EXCEPT !.JIS = Append(@, q)]
             ELSE IF g.Radical = "tradit" THEN [rad EXCEPT !.Tradit = Append(@, q)]
             ELSE rad
    IN  SearchRadicalFrom(g, q, r, 1)

SearchRadical(g, q, rad) ==
    LET r == SearchRadicalFrom(g, q, rad, 1)
    IN  IF Len(g.Radical) = 0 THEN r
        ELSE IF g.Radical = "general" THEN [r EXCEPT !.General = Append(@, q)]
        ELSE IF g.Radical = "nelson" THEN [r EXCEPT !.Nelson = Append(@, q)]
        ELSE IF g.Radical = "jis" THEN [r EXCEPT !.JIS = Append(@, q)]
        ELSE IF g.Radical = "tradit" THEN [r EXCEPT !.Tradit = Append(@, q)]
        ELSE r

SearchRadicalFrom(g, q, rad, i) ==
    IF i > Len(g.Children) THEN rad
    ELSE IF ~g.Children[i].IsGroup THEN SearchRadicalFrom(g, q, rad, i + 1)
    ELSE SearchRadicalFrom(g, q,
             SearchRadical(g.Children[i].Group, q \o <<i>>, rad), i + 1)

\* The place of the base group, &kvg.Groups[0].Children[0].Group.
BasePtr == <<1, 1>>

---------------------------------------------------------------------------
(* The documents the queries are made on: read from files, with the        *)
(* kvg:element, kvg:type and kvg:radical attributes filled in.             *)

ElementNames == {"a", "b"}

TypeCodes == {"", "a"}

RadicalNames == {"", "general", "tradit", "nelson", "jis", "Nelson"}

\* What is searched for: a name or type some documents hold, and one that
\* none holds.
SearchedElements == {"a", "c"}

SearchedTypes == {"", "a", "z"}

\* The Groups and the other children of the two kinds of document: with
\* elements and stroke types, and with radicals.
TaggedGroups == {[ZeroGroup EXCEPT !.Element = e] : e \in ElementNames}

TaggedLeaves == {PathChild([ZeroPath EXCEPT !.Type = t, !.D = "M1,1"]) :
                    t \in TypeCodes}
                \cup {TextChild([ZeroText EXCEPT !.Content = "1"])}

RadicalGroups == {[ZeroGroup EXCEPT !.Radical = r] : r \in RadicalNames}

RadicalLeaves == {PathChild([ZeroPath EXCEPT !.D = "M1,1"])}

\* QTrees(G, L, n): the Child values with exactly n nodes, Groups from G
\* and other children from L; QForests(G, L, n): the child sequences with
\* exactly n nodes in all.
RECURSIVE QTrees(_, _, _), QForests(_, _, _)
QTrees(G, L, n) ==
    IF n = 1 THEN L \cup {GroupChild(g) : g \in G}
    ELSE {GroupChild([g EXCEPT !.Children = f]) :
             g \in G, f \in QForests(G, L, n - 1)}

QForests(G, L, n) ==
    IF n = 0 THEN {<<>>}
    ELSE UNION {{<<t>> \o f : t \in QTrees(G, L, k),
                              f \in QForests(G, L, n - k)} : k \in 1..n}

\* A document whose base group is g with the children kids.
QuerySVG(g, kids) ==
    [ZeroSVG EXCEPT !.XMLNS = SvgNS,
                    !.Groups = <<[ZeroGroup EXCEPT !.Children =
                        <<GroupChild([g EXCEPT !.ID = InitBase,
                                               !.Children = kids])>>]>>]

QueryDocsOf(G, L, most) ==
    {QuerySVG(g, kids) :
        g \in G, kids \in UNION {QForests(G, L, n) : n \in 0..most}}

\* The documents of a kind: "tagged" with elements and stroke types and
\* up to MaxNodes nodes below the base group, "radical" with radicals and
\* one node less.
QueryDocs(kind) ==
    IF kind = "tagged"
    THEN QueryDocsOf(TaggedGroups, TaggedLeaves, MaxNodes)
    ELSE QueryDocsOf(RadicalGroups, RadicalLeaves, MaxNodes - 1)

---------------------------------------------------------------------------
(* The state machine of the queries: the calls a collaborator makes on the *)
(* base group of one document.  No call changes the document.              *)

InitQuery ==
    /\ \E kind \in {"tagged", "radical"} : doc \in QueryDocs(kind)
    /\ proc = "running"
    /\ ret = [op |-> "new"]

\* kvg.BaseGroup().GetPaths()
DoGetPaths ==
    /\ ret' = [op |-> "GetPaths", paths |-> GetPaths(BaseGroup(doc), BasePtr)]
    /\ UNCHANGED <<doc, proc>>

\* kvg.BaseGroup().GetGroups()
DoGetGroups ==
    /\ ret' = [op |-> "GetGroups",
               groups |-> GetGroups(BaseGroup(doc), BasePtr)]
    /\ UNCHANGED <<doc, proc>>

\* FindElement(kvg.BaseGroup(), funky)
DoFindElement ==
    /\ \E funky \in SearchedElements :
         LET r == FindElement(BaseGroup(doc), BasePtr, funky)
         IN  ret' = [op |-> "FindElement", funky |-> funky,
                     found |-> r.found, loc |-> r.loc]
    /\ UNCHANGED <<doc, proc>>

\* kvg.BaseGroup().FindMultiElement(funky)
DoFindMultiElement ==
    /\ \E funky \in SearchedElements :
         ret' = [op |-> "FindMultiElement", funky |-> funky,
                 locs |-> FindMultiElement(BaseGroup(doc), BasePtr, funky)]
    /\ UNCHANGED <<doc, proc>>

\* FindType(kvg.BaseGroup(), t)
DoFindType ==
    /\ \E t \in SearchedTypes :
         LET r == FindType(BaseGroup(doc), BasePtr, t)
         IN  ret' = [op |-> "FindType", t |-> t,
                     found |-> r.found, loc |-> r.loc]
    /\ UNCHANGED <<doc, proc>>

\* var rad Radical; kvg.BaseGroup().SearchRadical(&rad)
DoSearchRadical ==
    /\ ret' = [op |-> "SearchRadical",
               rad |-> SearchRadical(BaseGroup(doc), BasePtr, ZeroRadical)]
    /\ UNCHANGED <<doc, proc>>

NextQuery ==
    \/ DoGetPaths
    \/ DoGetGroups
    \/ DoFindElement
    \/ DoFindMultiElement
    \/ DoFindType
    \/ DoSearchRadical

SpecQuery == InitQuery /\ [][NextQuery]_vars

---------------------------------------------------------------------------
(* Views of a document used to state the properties.                       *)

\* The Group values among the descendants of a child sequence, in pre-order.
RECURSIVE GroupsIn(_)
GroupsIn(children) ==
    IF children = <<>> THEN <<>>
    ELSE LET c == Head(children)
         IN  (IF c.IsGroup THEN <<c.Group>> \o GroupsIn(c.Group.Children)
              ELSE <<>>) \o GroupsIn(Tail(children))

\* The Child values that are Paths, in document order.
RECURSIVE PathsIn(_)
PathsIn(children) ==
    IF children = <<>> THEN <<>>
    ELSE LET c == Head(children)
         IN  (IF c.IsGroup THEN PathsIn(c.Group.Children)
              ELSE IF IsPath(c) THEN <<c>> ELSE <<>>) \o PathsIn(Tail(children))

\* The Child values that are Texts, in document order.
RECURSIVE TextsIn(_)
TextsIn(children) ==
    IF children = <<>> THEN <<>>
    ELSE LET c == Head(children)
         IN  (IF c.IsGroup THEN TextsIn(c.Group.Children)
              ELSE IF c.IsText THEN <<c>> ELSE <<>>) \o TextsIn(Tail(children))

BaseKids == BaseGroup(doc).Children

Distinct(s) == \A i, j \in DOMAIN s : i # j => s[i] # s[j]

\* Every identifier of a child sequence, with the tag of its node.
RECURSIVE IdTree(_)
IdTree(children) ==
    [i \in 1..Len(children) |->
        LET c == children[i]
        IN  IF c.IsGroup THEN <<"g", c.Group.ID, IdTree(c.Group.Children)>>
            ELSE IF c.IsText THEN <<"text", c.Path.ID>>
            ELSE <<"path", c.Path.ID>>]

AllIds(svg) == [i \in 1..Len(svg.Groups) |->
                   <<svg.Groups[i].ID, IdTree(svg.Groups[i].Children)>>]

\* The structure of a document: nesting, child order and the tag of every
\* child, nothing else.
RECURSIVE ShapeOf(_)
ShapeOf(children) ==
    [i \in 1..Len(children) |->
        LET c == children[i]
        IN  IF c.IsGroup THEN <<"g", ShapeOf(c.Group.Children)>>
            ELSE IF c.IsText THEN <<"text">>
            ELSE <<"path">>]

DocShape(svg) == [i \in 1..Len(svg.Groups) |-> ShapeOf(svg.Groups[i].Children)]

\* The last call made the renumbering walk to its end.
Walked ==
    \/ ret.op \in {"RenumberXML", "MakeXML"}
    \/ ret.op = "SetBase" /\ proc = "running"

Renumbered == ret.op \in {"RenumberXML", "MakeXML"} /\ proc = "running"

---------------------------------------------------------------------------
(* The properties.                                                         *)

\* C1: after the walk the k-th Group met in pre-order below the base group
\* has identifier B-g<k> and the k-th Path met in document order has
\* identifier B-s<k>, B being the base group's identifier.
C1_PreorderNumbering ==
    Walked =>
      LET B  == BaseGroup(doc).ID
          gs == GroupsIn(BaseKids)
          ps == PathsIn(BaseKids)
      IN  /\ \A k \in DOMAIN gs : gs[k].ID = B \o "-g" \o ToString(k)
          /\ \A k \in DOMAIN ps : ps[k].Path.ID = B \o "-s" \o ToString(k)

\* C2: after the walk a Text child below the base group has been given no
\* identifier and no other field of its node was written, and the Paths are
\* numbered as if the Text children were not there.
C2_TextUntouched ==
    Walked =>
      LET B  == BaseGroup(doc).ID
          ts == TextsIn(BaseKids)
          ps == PathsIn(BaseKids)
      IN  /\ \A k \in DOMAIN ts : ts[k].Path = ZeroPath /\ ts[k].Group = ZeroGroup
          /\ \A k \in DOMAIN ps : ps[k].Path.ID = B \o "-s" \o ToString(k)

\* C3: RenumberXML or MakeXML on a document with one top-level group completes: the
\* process keeps running and the first top-level group has the canonical
\* style.
C3_OneGroupCompletes ==
    (ret.op \in {"RenumberXML", "MakeXML"} /\ Len(doc.Groups) = 1) =>
        /\ proc = "running"
        /\ doc.Groups[1].Style = StrokeStyle

\* C4: after RenumberXML every Group below the first top-level group has an
\* empty style, the first top-level group has the stroke style and the
\* second the label style.
C4_StylesCleared ==
    Renumbered =>
        /\ \A k \in DOMAIN GroupsIn(doc.Groups[1].Children) :
              GroupsIn(doc.Groups[1].Children)[k].Style = ""
        /\ doc.Groups[1].Style = StrokeStyle
        /\ doc.Groups[2].Style = LabelStyle

\* C5: SetBase with a base that does not begin with "kvg:" leaves the
\* process running and the document as it was.
C5_BadBaseReturns ==
    [][(ret'.op = "SetBase" /\ ~HasPrefix(ret'.base, "kvg:")) =>
          (proc' = "running" /\ doc' = doc)]_vars

\* C6: after a successful SetBase(newBase), newBase = "kvg:" T: the base
\* group's identifier is newBase, the top-level groups are
\* kvg:StrokePaths_T and kvg:StrokeNumbers_T, every Group and Path below
\* the base group has an identifier that starts with newBase, and Base()
\* gives (newBase, T).
C6_SetBaseIds ==
    (ret.op = "SetBase" /\ proc = "running") =>
      LET nb == ret.base
          T  == SubSeq(nb, 5, Len(nb))
          gs == GroupsIn(BaseKids)
          ps == PathsIn(BaseKids)
      IN  /\ nb = "kvg:" \o T
          /\ BaseGroup(doc).ID = nb
          /\ doc.Groups[1].ID = "kvg:StrokePaths_" \o T
          /\ Len(doc.Groups) > 1 => doc.Groups[2].ID = "kvg:StrokeNumbers_" \o T
          /\ \A k \in DOMAIN gs : HasPrefix(gs[k].ID, nb)
          /\ \A k \in DOMAIN ps : HasPrefix(ps[k].Path.ID, nb)
          /\ Base(doc) = <<nb, T>>

C6_Witness ==
    /\ ret.op = "SetBase" /\ proc = "running" /\ ret.base = "kvg:1-Kaisho"
    /\ Len(doc.Groups) = 2
    /\ Len(GroupsIn(BaseKids)) >= 1
    /\ Len(PathsIn(BaseKids)) >= 1

\* C7: RenumberXML right after RenumberXML changes nothing in the document,
\* and RenumberXML right after SetBase changes no identifier.
C7_Idempotent ==
    [][/\ (ret.op = "RenumberXML" /\ ret'.op = "RenumberXML") => doc' = doc
       /\ (ret.op = "SetBase" /\ ret'.op = "RenumberXML") =>
             AllIds(doc') = AllIds(doc)]_vars

C7_Witness ==
    /\ ret.op = "RenumberXML" /\ ret.again /\ proc = "running"
    /\ Len(GroupsIn(BaseKids)) >= 1
    /\ Len(PathsIn(BaseKids)) >= 1
    /\ Len(doc.Groups[2].Children) >= 1

\* C8 as claimed: after RenumberXML no two Groups of the document share an
\* identifier and no two Paths of the document share an identifier.
C8_AllUnique ==
    Renumbered =>
      LET tops == [i \in 1..Len(doc.Groups) |-> GroupChild(doc.Groups[i])]
      IN  /\ Distinct([k \in DOMAIN GroupsIn(tops) |-> GroupsIn(tops)[k].ID])
          /\ Distinct([k \in DOMAIN PathsIn(tops) |-> PathsIn(tops)[k].Path.ID])

\* C8 amended: after RenumberXML no two Groups below the base group share
\* an identifier and no two Paths below the base group share an identifier.
C8_UniqueBelowBase ==
    ret.op \in {"RenumberXML", "MakeXML"} =>
      /\ Distinct([k \in DOMAIN GroupsIn(BaseKids) |-> GroupsIn(BaseKids)[k].ID])
      /\ Distinct([k \in DOMAIN PathsIn(BaseKids) |-> PathsIn(BaseKids)[k].Path.ID])

C8_Witness ==
    /\ ret.op = "RenumberXML"
    /\ \E k \in DOMAIN BaseKids :
          BaseKids[k].IsGroup /\ Len(PathsIn(BaseKids[k].Group.Children)) >= 1
    /\ Len(PathsIn(BaseKids)) >= 2

\* C9: a RenumberXML that completes on a document with a second top-level
\* group leaves each Text child at position i of that group with content
\* the decimal string of i, and every other child of it as it was.
C9_Labels ==
    [][(ret'.op \in {"RenumberXML", "MakeXML"} /\ proc' = "running") =>
          /\ Len(doc'.Groups[2].Children) = Len(doc.Groups[2].Children)
          /\ \A i \in DOMAIN doc.Groups[2].Children :
                LET c == doc.Groups[2].Children[i]
                    d == doc'.Groups[2].Children[i]
                IN  IF c.IsText
                    THEN d = [c EXCEPT !.Text.Content = ToString(i)]
                    ELSE d = c]_vars

C9_Witness ==
    /\ Renumbered
    /\ Len(doc.Groups[2].Children) >= 2
    /\ IsPath(doc.Groups[2].Children[1])
    /\ doc.Groups[2].Children[1].Path.ID = "kvg:0-s1"
    /\ doc.Groups[2].Children[2].IsText
    /\ doc.Groups[2].Children[2].Text.Content = "2"

\* C10: ParseKanji of the bytes MakeXML returned for the document succeeds
\* and gives a document of the same structure: same nesting, same child
\* order, same tag for every child.
C10_RoundTrip ==
    ret.op = "ParseKanji" =>
        /\ ret.err = "nil"
        /\ DocShape(ret.svg) = DocShape(doc)

C10_Witness ==
    /\ ret.op = "ParseKanji" /\ ret.err = "nil"
    /\ Len(doc.Groups) = 2
    /\ \E k \in DOMAIN BaseKids :
          BaseKids[k].IsGroup /\ BaseKids[k].Group.Children # <<>>
    /\ Len(TextsIn(BaseKids)) >= 1
    /\ Len(TextsIn(doc.Groups[2].Children)) >= 1
    /\ Len(doc.Groups[2].Children) >= 2

\* The elements of a document in document order, each with its tag name
\* and the attribute fields of its node.
RECURSIVE ElemsIn(_)
ElemsIn(children) ==
    IF children = <<>> THEN <<>>
    ELSE LET c == Head(children)
         IN  (IF c.IsGroup
              THEN <<[name |-> "g",
                      fields |-> << <<"id", c.Group.ID>>,
                                    <<"kvg:element", c.Group.Element>>,
                                    <<"kvg:radical", c.Group.Radical>>,
                                    <<"style", c.Group.Style>> >>]>>
                       \o ElemsIn(c.Group.Children)
              ELSE IF c.IsText THEN <<[name |-> "text", fields |-> <<>>]>>
              ELSE <<[name |-> "path",
                      fields |-> << <<"id", c.Path.ID>>,
                                    <<"kvg:type", c.Path.Type>>,
                                    <<"d", c.Path.D>> >>]>>)
                 \o ElemsIn(Tail(children))

ElemsOf(svg) ==
    <<[name |-> "svg",
       fields |-> << <<"xmlns", svg.XMLNS>>, <<"width", svg.Width>>,
                     <<"height", svg.Height>>, <<"viewBox", svg.ViewBox>> >>]>>
        \o ElemsIn([i \in 1..Len(svg.Groups) |-> GroupChild(svg.Groups[i])])

IsTag(t) == t.kind \in {"start", "empty"}

\* The attributes written also when empty.
AlwaysWritten(name) ==
    IF name = "path" THEN {"id", "d"}
    ELSE IF name = "svg" THEN {"xmlns", "width", "height"}
    ELSE {}

Encoded == ret.op = "MakeXML" /\ proc = "running"

\* C11 as claimed: no tag of the output of MakeXML holds an attribute with
\* an empty value.
C11_NoEmptyAttr ==
    Encoded =>
      \A k \in DOMAIN ret.out.body :
         \A a \in DOMAIN ret.out.body[k].attrs :
            ret.out.body[k].attrs[a][2] # ""

\* C11 amended: the k-th tag of the output is the k-th element of the
\* document; it holds no attribute but those of its node, each with the
\* node's value; a Path's id and d and the root's xmlns, width and height
\* are written always (also when empty), every other attribute exactly
\* when its value is not empty.
C11_OmitEmptyOptional ==
    Encoded =>
      LET tags  == SelectSeq(ret.out.body, IsTag)
          elems == ElemsOf(doc)
      IN  /\ Len(tags) = Len(elems)
          /\ \A k \in DOMAIN tags :
                LET written == {tags[k].attrs[a] : a \in DOMAIN tags[k].attrs}
                    fields  == {elems[k].fields[f] : f \in DOMAIN elems[k].fields}
                IN  /\ tags[k].name = elems[k].name
                    /\ written \subseteq fields
                    /\ Len(tags[k].attrs) = Cardinality(written)
                    /\ \A f \in fields :
                          f \in written <=>
                            (f[2] # "" \/ f[1] \in AlwaysWritten(elems[k].name))

C11_Witness ==
    /\ Encoded
    /\ \E k \in DOMAIN ret.out.body :
          /\ ret.out.body[k].name = "path"
          /\ \E a \in DOMAIN ret.out.body[k].attrs :
                ret.out.body[k].attrs[a] = <<"id", "">>
    /\ \E k \in DOMAIN ret.out.body :
          /\ ret.out.body[k].name = "g" /\ IsTag(ret.out.body[k])
          /\ \A a \in DOMAIN ret.out.body[k].attrs :
                ret.out.body[k].attrs[a][1] # "style"

\* A sequence without its i-th entry.
RemoveAt(s, i) == SubSeq(s, 1, i - 1) \o SubSeq(s, i + 1, Len(s))

\* The document without the i-th child of the base group.
WithoutBaseKid(svg, i) ==
    WithBaseGroup(svg, [BaseGroup(svg) EXCEPT !.Children = RemoveAt(@, i)])

\* C12: when a child element of the base group is neither g, path nor
\* text, decoding succeeds and gives the document without that child and
\* without anything nested in it.
C12_UnknownDropped ==
    ret.op = "ParseUnknown" =>
        /\ ret.err = "nil"
        /\ DocShape(ret.svg) = DocShape(WithoutBaseKid(doc, ret.at))

\* The place in the document svg of the Child with the indexes q from the
\* top (q[1] the top-level Group, then the index in each Children), or of
\* the top-level Group when q has one index.
PlaceIn(svg, q) ==
    IF Len(q) = 1 THEN GroupsSlot(Len(svg.Groups), q[1])
    ELSE [mem |-> "Children", cap |-> 0, at |-> q]

\* Every Child of the sequence, which is the Children of the Group at q,
\* points to that Group of svg, every Group in it points to the Child that
\* holds it, and so on below.
RECURSIVE ParentsIn(_, _, _)
ParentsIn(svg, children, q) ==
    \A j \in DOMAIN children :
        /\ children[j].Parent = PlaceIn(svg, q)
        /\ children[j].IsGroup =>
              /\ children[j].Group.Parent = PlaceIn(svg, q \o <<j>>)
              /\ ParentsIn(svg, children[j].Group.Children, q \o <<j>>)

Decoded == ret.op = "ParseKanji" /\ ret.err = "nil"

\* C20: in the document ParseKanji returns, the Parent of every Child
\* points to the Group of that document whose Children holds the Child, and
\* the Parent of every nested Group to the Child of that document that
\* holds the Group; also when the document has two top-level Groups.
C20_ParentsDesignate ==
    Decoded =>
        \A i \in DOMAIN ret.svg.Groups :
            ParentsIn(ret.svg, ret.svg.Groups[i].Children, <<i>>)

---------------------------------------------------------------------------
(* The properties of the queries, on the specification SpecQuery.          *)

\* The places of the nodes below the Group g at q that are of one kind
\* ("g", "path" or "text"), in pre-order: a node before what is in it, the
\* children in document order.
KindOf(c) == IF c.IsGroup THEN "g" ELSE IF c.IsText THEN "text" ELSE "path"

RECURSIVE PlacesFrom(_, _, _, _)
PlacesFrom(g, q, kind, i) ==
    IF i > Len(g.Children) THEN <<>>
    ELSE LET c == g.Children[i]
         IN  (IF KindOf(c) = kind THEN << q \o <<i>> >> ELSE <<>>)
             \o (IF c.IsGroup THEN PlacesFrom(c.Group, q \o <<i>>, kind, 1)
                 ELSE <<>>)
             \o PlacesFrom(g, q, kind, i + 1)

PlacesBelow(g, q, kind) == PlacesFrom(g, q, kind, 1)

\* C13: GetPaths on the base group returns the places of the Paths below
\* it, each once, in pre-order; a Text child gives no entry.
C13_PathsOnly ==
    ret.op = "GetPaths" =>
        ret.paths = PlacesBelow(BaseGroup(doc), BasePtr, "path")

\* The Group of svg at the place q.
RECURSIVE GroupAt(_, _)
GroupAt(svg, q) ==
    IF Len(q) = 1 THEN svg.Groups[q[1]]
    ELSE GroupAt(svg, SubSeq(q, 1, Len(q) - 1)).Children[q[Len(q)]].Group

\* The Child of svg at the place q, which has two indexes or more.
ChildAt(svg, q) ==
    GroupAt(svg, SubSeq(q, 1, Len(q) - 1)).Children[q[Len(q)]]

Last(s) == s[Len(s)]

\* The place a is that of a Child of the Group at the place b.
IsChildOf(a, b) == Len(a) = Len(b) + 1 /\ SubSeq(a, 1, Len(b)) = b

\* The places of the Groups below the base group whose element is name,
\* in pre-order.
ElementPlaces(name) ==
    LET Is(x) == GroupAt(doc, x).Element = name
    IN  SelectSeq(PlacesBelow(BaseGroup(doc), BasePtr, "g"), Is)

\* C14: FindMultiElement on the base group gives one chain for every Group
\* below it whose element is the name, also for one inside another such
\* Group, and the chains come in document order of these Groups.
C14_EveryMatch ==
    ret.op = "FindMultiElement" =>
        LET want == ElementPlaces(ret.funky)
        IN  /\ Len(ret.locs) = Len(want)
            /\ \A k \in DOMAIN ret.locs :
                  ret.locs[k] # <<>> /\ Last(ret.locs[k]) = want[k]

\* C15: every chain FindMultiElement gives starts with the base group,
\* ends with a Group whose element is the name, and each entry after the
\* first is a child Group of the entry before it.
C15_ChainIsAncestorPath ==
    ret.op = "FindMultiElement" =>
        \A k \in DOMAIN ret.locs :
            LET chain == ret.locs[k]
            IN  /\ chain # <<>>
                /\ chain[1] = BasePtr
                /\ GroupAt(doc, Last(chain)).Element = ret.funky
                /\ \A m \in 1..(Len(chain) - 1) :
                      IsChildOf(chain[m + 1], chain[m])

\* C16: FindElement on the base group, when the base group or a Group
\* below it has the element, returns found and a chain that starts with
\* the first such Group in pre-order, ends with the base group, and in
\* which each entry is a child Group of the next; when no Group has the
\* element it returns not found and an empty chain.
C16_FirstMatchChain ==
    ret.op = "FindElement" =>
        LET want == (IF BaseGroup(doc).Element = ret.funky
                     THEN <<BasePtr>> ELSE <<>>) \o ElementPlaces(ret.funky)
        IN  IF want = <<>> THEN ~ret.found /\ ret.loc = <<>>
            ELSE /\ ret.found
                 /\ ret.loc # <<>>
                 /\ ret.loc[1] = want[1]
                 /\ Last(ret.loc) = BasePtr
                 /\ \A m \in 1..(Len(ret.loc) - 1) :
                       IsChildOf(ret.loc[m], ret.loc[m + 1])

\* The first match is two levels below the base group, after a Group
\* without the element, and another match follows it.
C16_Witness ==
    /\ ret.op = "FindElement" /\ ret.found
    /\ Len(ret.loc) = 3
    /\ ret.loc[1] = BasePtr \o <<1, 1>>
    /\ Len(ElementPlaces(ret.funky)) >= 2

\* a comes before b in document order, neither being above the other.
RECURSIVE DocBefore(_, _)
DocBefore(a, b) ==
    /\ a # <<>> /\ b # <<>>
    /\ \/ Head(a) < Head(b)
       \/ Head(a) = Head(b) /\ DocBefore(Tail(a), Tail(b))

\* The Group at a is above the Group at b.
IsAbove(a, b) == Len(a) < Len(b) /\ SubSeq(b, 1, Len(a)) = a

\* C17: GetGroups on the base group lists the base group and every Group
\* below it exactly once, a Group after all the Groups below it, Groups
\* of which neither is above the other in document order, the base group
\* last; nothing else is listed.
C17_PostOrder ==
    ret.op = "GetGroups" =>
        LET gs  == ret.groups
            all == {BasePtr} \cup
                   {PlacesBelow(BaseGroup(doc), BasePtr, "g")[k] :
                       k \in DOMAIN PlacesBelow(BaseGroup(doc), BasePtr, "g")}
        IN  /\ {gs[k] : k \in DOMAIN gs} = all
            /\ Len(gs) = Cardinality(all)
            /\ Last(gs) = BasePtr
            /\ \A i, j \in DOMAIN gs :
                  /\ IsAbove(gs[j], gs[i]) => i < j
                  /\ DocBefore(gs[i], gs[j]) => i < j

\* A Group with a Group in it and a Path or a Text next to them.
C17_Witness ==
    /\ ret.op = "GetGroups"
    /\ Len(ret.groups) = 3
    /\ IsAbove(ret.groups[2], ret.groups[1])
    /\ PlacesBelow(BaseGroup(doc), BasePtr, "path")
           \o PlacesBelow(BaseGroup(doc), BasePtr, "text") # <<>>

\* The places of the Paths below the base group whose type is t, in
\* document order.
TypePlaces(t) ==
    LET Is(x) == ChildAt(doc, x).Path.Type = t
    IN  SelectSeq(PlacesBelow(BaseGroup(doc), BasePtr, "path"), Is)

\* C18: FindType on the base group, when a Path below it has the type,
\* returns found and a list that starts with the Child of the first such
\* Path in document order, each entry after it being the Child of the
\* Group that holds the entry before, up to a Child of the base group; a
\* Text child is never the match, also when the type is empty; when no
\* Path has the type it returns not found and an empty list.
C18_FirstPathOfType ==
    ret.op = "FindType" =>
        LET want == TypePlaces(ret.t)
        IN  IF want = <<>> THEN ~ret.found /\ ret.loc = <<>>
            ELSE /\ ret.found
                 /\ ret.loc # <<>>
                 /\ ret.loc[1] = want[1]
                 /\ IsChildOf(Last(ret.loc), BasePtr)
                 /\ \A m \in 1..(Len(ret.loc) - 1) :
                       IsChildOf(ret.loc[m], ret.loc[m + 1])

\* The base group or a Group below it, in the order of GetGroups, whose
\* radical is name.
RadicalPlaces(name) ==
    LET Is(x) == GroupAt(doc, x).Radical = name
    IN  SelectSeq(GetGroups(BaseGroup(doc), BasePtr), Is)

\* C19: SearchRadical on the base group puts the Groups whose radical is
\* "general", "tradit", "nelson" or "jis" in the bucket of that name, in
\* the order of GetGroups, each once; a Group with an empty radical or
\* with another value is in no bucket, and the walk goes on after it.
C19_Buckets ==
    ret.op = "SearchRadical" =>
        /\ ret.rad.General = RadicalPlaces("general")
        /\ ret.rad.Tradit = RadicalPlaces("tradit")
        /\ ret.rad.Nelson = RadicalPlaces("nelson")
        /\ ret.rad.JIS = RadicalPlaces("jis")

\* Two "general" Groups, one in the other, the inner one after a Group
\* with a radical that is none of the four.
C19_Witness ==
    /\ ret.op = "SearchRadical"
    /\ ret.rad.General = <<BasePtr \o <<2>>, BasePtr>>
    /\ GroupAt(doc, BasePtr \o <<1>>).Radical = "Nelson"

====
